---- MODULE Spec2Model ----
(***************************************************************************)
(* Model of the mood-based song recommender: the console variant           *)
(* (src/app.py) and the form variant (src/st.py).                          *)
(*                                                                         *)
(* Python strings are modelled as sequences of one-character strings, so   *)
(* that str.lower(), the substring test `kw in text` and int(text) are     *)
(* computed the way the interpreter computes them.                         *)
(***************************************************************************)
EXTENDS Integers, Sequences, FiniteSets, TLC

VARIABLES
    variant,        \* which file's MusicRecommender is called: "app" or "st"
    user_mood,      \* detect_mood: the argument, as passed by the caller
    detected,       \* detect_mood: the returned label, "none" before the call
    mood,           \* search_songs_by_language: argument mood
    language,       \* search_songs_by_language: argument language
    num_songs,      \* search_songs_by_language: argument num_songs
    songs,          \* search_songs_by_language: local list songs
    issued,         \* the calls of self.spotify.search made so far, in order
    tracks_total,   \* number of tracks handed back by the searches that did not raise
    failures,       \* number of searches that raised
    wellformed,     \* every track handed back so far had all keys _create_song reads
    returned,       \* the list returned to the caller, "pending" before the return
    pc,             \* control position
    user_input,     \* main: local user_input (already lower-cased)
    lang_choice,    \* main: local lang_choice as <<n>>, << >> while it is unbound
    last_input,     \* main: the last line typed and the prompt it was typed at
    exit_cause      \* main: why the while loop / the try block was left

vars == << variant, user_mood, detected, mood, language, num_songs, songs,
           issued, tracks_total, failures, wellformed, returned, pc,
           user_input, lang_choice, last_input, exit_cause >>

detect_vars == << variant, user_mood, detected >>
search_vars == << mood, language, num_songs, songs, issued,
                  tracks_total, failures, wellformed, returned >>
main_vars == << user_input, lang_choice, last_input, exit_cause >>

----------------------------------------------------------------------------
(* Bounds of the model.                                                    *)

\* Longest input text of detect_mood, in words joined by single spaces.
MaxWords == 3
\* Largest requested count num_songs (the smallest is -1).
MaxN == 3
\* Longest track list one catalog search hands back (the code asks for limit=10).
MaxTracks == 2

----------------------------------------------------------------------------
(* Python string primitives.                                               *)

UpperCase == << "A","B","C","D","E","F","G","H","I","J","K","L","M",
                "N","O","P","Q","R","S","T","U","V","W","X","Y","Z" >>
LowerCase == << "a","b","c","d","e","f","g","h","i","j","k","l","m",
                "n","o","p","q","r","s","t","u","v","w","x","y","z" >>

\* str.lower() on one character.
lower_char(c) ==
    IF \E i \in 1..26 : UpperCase[i] = c
    THEN LowerCase[CHOOSE i \in 1..26 : UpperCase[i] = c]
    ELSE c

\* str.lower()
lower(s) == [i \in 1..Len(s) |-> lower_char(s[i])]

\* The Python test `kw in text` on strings: kw occurs as a contiguous substring.
contains(text, kw) ==
    \E i \in 0..(Len(text) - Len(kw)) :
        \A j \in 1..Len(kw) : text[i + j] = kw[j]

\* " ".join(words)
RECURSIVE join(_)
join(words) ==
    IF Len(words) = 0 THEN << >>
    ELSE IF Len(words) = 1 THEN words[1]
    ELSE words[1] \o << " " >> \o join(Tail(words))

----------------------------------------------------------------------------
(* detect_mood                                                             *)

\* mood_keywords["happy"], the same list in both files.
happy_keywords ==
    << <<"h","a","p","p","y">>,
       <<"j","o","y","f","u","l">>,
       <<"e","x","c","i","t","e","d">>,
       <<"c","h","e","e","r","f","u","l">>,
       <<"g","o","o","d">>,
       <<"g","r","e","a","t">>,
       <<"f","a","n","t","a","s","t","i","c">> >>

\* mood_keywords["sad"] of the console variant.
sad_keywords_app ==
    << <<"s","a","d">>,
       <<"d","o","w","n">>,
       <<"d","e","p","r","e","s","s","e","d">>,
       <<"m","e","l","a","n","c","h","o","l","i","c">>,
       <<"h","e","a","r","t","b","r","o","k","e","n">>,
       <<"I"," ","a","m"," ","n","o","t"," ","f","e","e","l","i","n","g"," ","g","o","o","d">>,
       <<"u","p","s","e","t">>,
       <<"b","a","d">>,
       <<"l","o","n","e","l","y">>,
       <<"s","t","r","e","s","s","e","d">> >>

\* mood_keywords["sad"] of the form variant.
sad_keywords_st ==
    << <<"s","a","d">>,
       <<"d","o","w","n">>,
       <<"d","e","p","r","e","s","s","e","d">>,
       <<"m","e","l","a","n","c","h","o","l","i","c">>,
       <<"h","e","a","r","t","b","r","o","k","e","n">>,
       <<"n","o","t"," ","f","e","e","l","i","n","g"," ","g","o","o","d">>,
       <<"u","p","s","e","t">>,
       <<"b","a","d">>,
       <<"l","o","n","e","l","y">>,
       <<"s","t","r","e","s","s","e","d">>,
       <<"m","i","s","e","r","a","b","l","e">>,
       <<"e","m","p","t","y">>,
       <<"b","l","u","e">>,
       <<"l","o","w">>,
       <<"e","m","o","t","i","o","n","a","l">>,
       <<"f","e","e","l","i","n","g"," ","d","o","w","n">> >>

\* The keys of mood_keywords in insertion order, which is the iteration order
\* of the dict and of mood_scores built from it.
mood_order == << "happy", "sad" >>

\* The dict mood_keywords of variant v.
mood_keywords(v) ==
    [ happy |-> happy_keywords,
      sad   |-> IF v = "app" THEN sad_keywords_app ELSE sad_keywords_st ]

\* sum(1 for keyword in keywords if keyword in user_mood)
keyword_score(keywords, text) ==
    Cardinality({ i \in 1..Len(keywords) : contains(text, keywords[i]) })

\* The dict comprehension that builds mood_scores.
mood_scores(v, text) ==
    [ m \in { mood_order[i] : i \in 1..Len(mood_order) } |->
        keyword_score(mood_keywords(v)[m], text) ]

\* `"not" in user_mood or "no" in user_mood`
has_negation(text) ==
    contains(text, <<"n","o","t">>) \/ contains(text, <<"n","o">>)

\* The if statement that sets mood_scores["happy"] = 0.
negation_adjusted(scores, text) ==
    IF has_negation(text) THEN [scores EXCEPT !["happy"] = 0] ELSE scores

\* A max that keeps the last maximal key instead of the first.
py_max_key_last(scores) ==
    mood_order[CHOOSE i \in 1..Len(mood_order) :
        /\ \A j \in 1..Len(mood_order) : scores[mood_order[j]] <= scores[mood_order[i]]
        /\ \A j \in (i+1)..Len(mood_order) : scores[mood_order[j]] < scores[mood_order[i]]]

\* max(mood_scores, key=mood_scores.get): the first key, in iteration order,
\* whose value is maximal.
py_max_key(scores) ==
    mood_order[CHOOSE i \in 1..Len(mood_order) :
        /\ \A j \in 1..Len(mood_order) : scores[mood_order[j]] <= scores[mood_order[i]]
        /\ \A j \in 1..(i-1) : scores[mood_order[j]] < scores[mood_order[i]]]

\* any(mood_scores.values())
py_any(scores) == \E m \in DOMAIN scores : scores[m] # 0

\* A detect_mood that scores the text as given, without lower-casing it.
detect_mood_no_lower(v, text) ==
    LET scores == negation_adjusted(mood_scores(v, text), text)
    IN  IF py_any(scores) THEN py_max_key(scores) ELSE "happy"

\* MusicRecommender.detect_mood of variant v.
detect_mood(v, text) ==
    LET lowered == lower(text)
        scores  == negation_adjusted(mood_scores(v, lowered), lowered)
    IN  IF py_any(scores) THEN py_max_key(scores) ELSE "happy"

----------------------------------------------------------------------------
(* Input texts of detect_mood.                                             *)

\* Words the bounded texts are built from: both markers, a word that only
\* embeds a marker, keywords of both categories, upper-case spellings and a
\* word that matches nothing.
CoreWords ==
    { <<"I"," ","a","m">>,
      <<"n","o","t">>,
      <<"n","o">>,
      <<"k","n","o","w">>,
      <<"h","a","p","p","y">>,
      <<"g","o","o","d">>,
      <<"s","a","d">>,
      <<"b","a","d">>,
      <<"H","A","P","P","Y">>,
      <<"N","O","T">>,
      <<"S","a","d">>,
      <<"b","a","n","a","n","a">> }

\* Every entry of every keyword list, exactly as the source spells it.
KeywordTexts ==
    { happy_keywords[i] : i \in 1..Len(happy_keywords) }
    \cup { sad_keywords_app[i] : i \in 1..Len(sad_keywords_app) }
    \cup { sad_keywords_st[i] : i \in 1..Len(sad_keywords_st) }

Texts ==
    KeywordTexts
    \cup UNION { { join(ws) : ws \in [1..n -> CoreWords] } : n \in 0..MaxWords }

Variants == { "app", "st" }

----------------------------------------------------------------------------
(* search_songs_by_language                                                *)
(* Modelled from src/app.py lines 75-114; lines 80-119 of src/st.py are    *)
(* the same statements. The outer try/except (return [] on an error) is    *)
(* not reached: with mood and language keys of mood_map, every statement   *)
(* that can raise sits inside the inner try.                               *)

Moods == { "happy", "sad" }
Languages == { "english", "hindi" }

\* self.mood_map[mood][language]["search_terms"]
search_terms(m, l) ==
    IF m = "happy"
    THEN IF l = "english"
         THEN << "happy", "upbeat", "dance", "party" >>
         ELSE << "bollywood dance", "hindi party", "bollywood pop" >>
    ELSE IF l = "english"
         THEN << "sad", "melancholic", "emotional", "slow", "heartbroken" >>
         ELSE << "bollywood sad", "hindi emotional", "bollywood classical",
                 "dard bhare gane" >>

\* A market chosen the wrong way round.
market_for_swapped(l) == IF l = "hindi" THEN "US" ELSE "IN"

\* market = "IN" if language == "hindi" else "US"
market_for(l) == IF l = "hindi" THEN "IN" ELSE "US"

\* Track records of the catalog. A track is named by its "name" value; the
\* malformed track lacks a key _create_song subscripts, so building a Song
\* from it raises KeyError.
GoodTracks == { "a", "b" }
Malformed == "malformed"
Tracks == GoodTracks \cup { Malformed }

\* results['tracks']['items'] of one successful search.
ItemLists == UNION { [1..n -> Tracks] : n \in 0..MaxTracks }

\* random.shuffle(tracks): any reordering.
shuffles(items) ==
    { [i \in 1..Len(items) |-> items[p[i]]] : p \in Permutations(1..Len(items)) }

\* MusicRecommender._create_song on a well-formed track.
create_song(track, m, l) == [ title |-> track, mood |-> m, language |-> l ]

\* A track loop that never looks at the number of songs collected.
take_tracks_uncapped(collected, tracks, n, m, l) ==
    [ songs  |-> collected \o [i \in 1..Len(tracks) |-> create_song(tracks[i], m, l)],
      raised |-> FALSE ]

\* The loop `for track in tracks`: stop at num_songs, append one Song per
\* track; raised is TRUE when _create_song raised (the songs appended before
\* it stay in the list).
RECURSIVE take_tracks(_, _, _, _, _)
take_tracks(collected, tracks, n, m, l) ==
    IF Len(tracks) = 0 THEN [ songs |-> collected, raised |-> FALSE ]
    ELSE IF Len(collected) >= n THEN [ songs |-> collected, raised |-> FALSE ]
    ELSE IF Head(tracks) = Malformed THEN [ songs |-> collected, raised |-> TRUE ]
    ELSE take_tracks(Append(collected, create_song(Head(tracks), m, l)),
                     Tail(tracks), n, m, l)

\* The slice seq[:n] of Python, for any integer n.
py_slice_to(seq, n) ==
    LET k == IF n >= 0
             THEN (IF n < Len(seq) THEN n ELSE Len(seq))
             ELSE (IF Len(seq) + n > 0 THEN Len(seq) + n ELSE 0)
    IN  SubSeq(seq, 1, k)

\* Position of the for loop: the index of the term the next iteration takes.
term_idx == Len(issued) + 1

\* The for statement after iteration idx of nterms: the next term, or the
\* statement after the loop.
next_term(idx, nterms) == IF idx < nterms THEN "loop" ELSE "at_return"

\* An exception handler that leaves the loop.
on_exception_break(idx, nterms) == "at_return"

\* `except Exception: print(...); continue`
on_exception(idx, nterms) == next_term(idx, nterms)

\* A loop that never breaks on the number of songs collected.
after_iteration_no_break(idx, nterms, collected, n) == next_term(idx, nterms)

\* `if len(songs) >= num_songs: break`, then the for statement.
after_iteration(idx, nterms, collected, n) ==
    IF Len(collected) >= n THEN "at_return" ELSE next_term(idx, nterms)

\* The keyword arguments of self.spotify.search, and what was collected
\* when the call was made. The offset, random.randint(0, 50), is left out:
\* nothing in the function reads it after the call.
search_call ==
    [ q         |-> search_terms(mood, language)[term_idx],
      market    |-> market_for(language),
      collected |-> Len(songs) ]

nterms == Len(search_terms(mood, language))

\* A search error that reaches the outer handler, which returns [].
SearchRaisesOuterHandler ==
    /\ pc = "loop"
    /\ issued' = Append(issued, search_call)
    /\ failures' = failures + 1
    /\ returned' = << >>
    /\ pc' = "returned"
    /\ UNCHANGED << mood, language, num_songs, songs, tracks_total, wellformed >>
    /\ UNCHANGED << detect_vars, main_vars >>

\* One iteration in which self.spotify.search raises.
SearchRaises ==
    /\ pc = "loop"
    /\ issued' = Append(issued, search_call)
    /\ failures' = failures + 1
    /\ pc' = on_exception(term_idx, nterms)
    /\ UNCHANGED << mood, language, num_songs, songs, tracks_total,
                    wellformed, returned >>
    /\ UNCHANGED << detect_vars, main_vars >>

\* One iteration in which the search answers with a falsy value or without
\* 'tracks' / 'items'.
SearchNoItems ==
    /\ pc = "loop"
    /\ issued' = Append(issued, search_call)
    /\ pc' = after_iteration(term_idx, nterms, songs, num_songs)
    /\ UNCHANGED << mood, language, num_songs, songs, tracks_total, failures,
                    wellformed, returned >>
    /\ UNCHANGED << detect_vars, main_vars >>

\* One iteration in which the search answers with a list of tracks.
SearchReturnsTracks ==
    /\ pc = "loop"
    /\ \E items \in ItemLists :
         \E tracks \in shuffles(items) :
           LET r == take_tracks(songs, tracks, num_songs, mood, language)
           IN  /\ songs' = r.songs
               /\ tracks_total' = tracks_total + Len(items)
               /\ wellformed' = (wellformed /\ \A i \in 1..Len(items) : items[i] # Malformed)
               /\ pc' = IF r.raised
                        THEN on_exception(term_idx, nterms)
                        ELSE after_iteration(term_idx, nterms, r.songs, num_songs)
    /\ issued' = Append(issued, search_call)
    /\ UNCHANGED << mood, language, num_songs, failures, returned >>
    /\ UNCHANGED << detect_vars, main_vars >>

\* return songs[:num_songs]
Return ==
    /\ pc = "at_return"
    /\ returned' = py_slice_to(songs, num_songs)
    /\ pc' = "returned"
    /\ UNCHANGED << mood, language, num_songs, songs, issued, tracks_total,
                    failures, wellformed >>
    /\ UNCHANGED << detect_vars, main_vars >>

----------------------------------------------------------------------------
(* Specification of one call of detect_mood.                               *)

NoInput == [ prompt |-> "none", line |-> << >> ]

DetectInit ==
    /\ variant \in Variants
    /\ user_mood \in Texts
    /\ detected = "none"
    /\ pc = "detect_call"
    /\ mood = "happy" /\ language = "english" /\ num_songs = 0
    /\ songs = << >> /\ issued = << >> /\ tracks_total = 0 /\ failures = 0
    /\ wellformed = TRUE /\ returned = "pending"
    /\ user_input = << >> /\ lang_choice = << >> /\ last_input = NoInput
    /\ exit_cause = "none"

DetectMood ==
    /\ pc = "detect_call"
    /\ detected' = detect_mood(variant, user_mood)
    /\ pc' = "detect_done"
    /\ UNCHANGED << variant, user_mood, search_vars, main_vars >>

DetectNext == DetectMood

DetectSpec == DetectInit /\ [][DetectNext]_vars

----------------------------------------------------------------------------
(* Specification of one call of search_songs_by_language (reached through  *)
(* get_recommendations) with any mood, language and num_songs.             *)

SearchInit ==
    /\ variant = "app"
    /\ user_mood = << >>
    /\ detected = "none"
    /\ mood \in Moods
    /\ language \in Languages
    /\ num_songs \in -1..MaxN
    /\ songs = << >> /\ issued = << >> /\ tracks_total = 0 /\ failures = 0
    /\ wellformed = TRUE /\ returned = "pending"
    /\ pc = "loop"
    /\ user_input = << >> /\ lang_choice = << >> /\ last_input = NoInput
    /\ exit_cause = "none"

SearchNext ==
    \/ SearchRaises
    \/ SearchNoItems
    \/ SearchReturnsTracks
    \/ Return

SearchSpec == SearchInit /\ [][SearchNext]_vars

----------------------------------------------------------------------------
(* main: the console session of src/app.py.                                *)

\* num_songs: int = 3, the default main relies on.
DefaultNumSongs == 3

DigitChars == << "0","1","2","3","4","5","6","7","8","9" >>
is_digit(c) == \E i \in 1..10 : DigitChars[i] = c
digit_value(c) == (CHOOSE i \in 1..10 : DigitChars[i] = c) - 1

\* str.strip() for the blank.
RECURSIVE lstrip(_)
lstrip(s) == IF Len(s) > 0 /\ Head(s) = " " THEN lstrip(Tail(s)) ELSE s
RECURSIVE rstrip(_)
rstrip(s) ==
    IF Len(s) > 0 /\ s[Len(s)] = " " THEN rstrip(SubSeq(s, 1, Len(s) - 1)) ELSE s
strip(s) == rstrip(lstrip(s))

RECURSIVE decimal_value(_)
decimal_value(ds) ==
    IF Len(ds) = 0 THEN 0
    ELSE 10 * decimal_value(SubSeq(ds, 1, Len(ds) - 1)) + digit_value(ds[Len(ds)])

\* int(text): blanks around the number and one sign are accepted; anything
\* else than decimal digits raises ValueError (raised is TRUE, value unused).
py_int(text) ==
    LET t      == strip(text)
        signed == Len(t) > 0 /\ t[1] \in { "+", "-" }
        body   == IF signed THEN Tail(t) ELSE t
    IN  IF Len(body) = 0 \/ \E i \in 1..Len(body) : ~is_digit(body[i])
        THEN [ raised |-> TRUE, value |-> 0 ]
        ELSE IF signed /\ t[1] = "-"
        THEN [ raised |-> FALSE, value |-> 0 - decimal_value(body) ]
        ELSE [ raised |-> FALSE, value |-> decimal_value(body) ]

quit_sentinel == <<"q","u","i","t">>

\* Lines typed at the mood prompt.
MoodLines ==
    { <<"q","u","i","t">>,
      <<"Q","U","I","T">>,
      <<"Q","u","i","t">>,
      <<" ","q","u","i","t">>,
      <<"q","u","i","t"," ","n","o","w">>,
      <<"h","a","p","p","y">>,
      <<"I"," ","a","m"," ","s","a","d">>,
      << >> }

\* Lines typed at the language prompt.
LangLines ==
    { <<"1">>, <<"2">>, <<"3">>, <<"0">>, <<" ","2">>, <<"+","1">>, <<"-","1">>,
      <<"1","2">>, <<"q","u","i","t">>, <<"o","n","e">>, <<"1",".","0">>, << >> }

\* MusicRecommender(CLIENT_ID, CLIENT_SECRET) raises: the except clause of
\* main prints the remediation message and main ends.
SetupFails ==
    /\ pc = "setup"
    /\ pc' = "exited"
    /\ exit_cause' = "error"
    /\ UNCHANGED << detect_vars, search_vars, user_input, lang_choice, last_input >>

\* The recommender is constructed and the while loop is entered.
SetupSucceeds ==
    /\ pc = "setup"
    /\ pc' = "mood_prompt"
    /\ UNCHANGED << detect_vars, search_vars, main_vars >>

\* A quit test that compares the line as typed.
leaves_loop_exact(line) == line = quit_sentinel

\* user_input = input(...).lower(); if user_input == 'quit': break
leaves_loop(line) == lower(line) = quit_sentinel

\* One line typed at "How are you feeling?".
ReadMood(line) ==
    /\ pc = "mood_prompt"
    /\ user_input' = lower(line)
    /\ last_input' = [ prompt |-> "mood", line |-> line ]
    /\ IF leaves_loop(line)
       THEN pc' = "exited" /\ exit_cause' = "quit"
       ELSE pc' = "lang_prompt" /\ UNCHANGED exit_cause
    /\ UNCHANGED << detect_vars, search_vars, lang_choice >>

\* A menu test that accepts every number.
choice_accepted_any(parsed) == ~parsed.raised

\* int(...) did not raise and `lang_choice in [1, 2]`.
choice_accepted(parsed) == ~parsed.raised /\ parsed.value \in { 1, 2 }

\* One line typed at "Enter number (1 or 2)": a ValueError or a number other
\* than 1 and 2 asks again; 1 or 2 leaves the inner loop, and main goes on to
\* detect_mood and get_recommendations(mood, language) up to the first
\* iteration of the search loop.
ReadLanguage(line) ==
    /\ pc = "lang_prompt"
    /\ last_input' = [ prompt |-> "language", line |-> line ]
    /\ LET parsed == py_int(line)
       IN  /\ lang_choice' = IF parsed.raised THEN lang_choice ELSE << parsed.value >>
           /\ IF choice_accepted(parsed)
              THEN /\ language' = IF parsed.value = 1 THEN "english" ELSE "hindi"
                   /\ user_mood' = user_input
                   /\ detected' = detect_mood(variant, user_input)
                   /\ mood' = detected'
                   /\ num_songs' = DefaultNumSongs
                   /\ songs' = << >>
                   /\ issued' = << >>
                   /\ tracks_total' = 0
                   /\ failures' = 0
                   /\ wellformed' = TRUE
                   /\ returned' = "pending"
                   /\ pc' = "loop"
              ELSE /\ pc' = "lang_prompt"
                   /\ UNCHANGED << user_mood, detected, search_vars >>
    /\ UNCHANGED << variant, user_input, exit_cause >>

\* The recommendations (or the apology) are printed and the while loop
\* starts over. The frame of the finished call is gone and main does not
\* read the printed list again, so the record of the call is cleared.
PrintRecommendations ==
    /\ pc = "returned"
    /\ pc' = "mood_prompt"
    /\ songs' = << >>
    /\ issued' = << >>
    /\ tracks_total' = 0
    /\ failures' = 0
    /\ wellformed' = TRUE
    /\ returned' = "pending"
    /\ UNCHANGED << detect_vars, mood, language, num_songs, main_vars >>

\* input() raises at a prompt (end of input, Ctrl-C): one of the two except
\* clauses of main prints its message and main ends.
InputRaises ==
    /\ pc \in { "mood_prompt", "lang_prompt" }
    /\ pc' = "exited"
    /\ exit_cause' = "error"
    /\ UNCHANGED << detect_vars, search_vars, user_input, lang_choice, last_input >>

MainInit ==
    /\ variant = "app"
    /\ user_mood = << >>
    /\ detected = "none"
    /\ mood = "happy" /\ language = "english" /\ num_songs = DefaultNumSongs
    /\ songs = << >> /\ issued = << >> /\ tracks_total = 0 /\ failures = 0
    /\ wellformed = TRUE /\ returned = "pending"
    /\ pc = "setup"
    /\ user_input = << >> /\ lang_choice = << >> /\ last_input = NoInput
    /\ exit_cause = "none"

MainNext ==
    \/ SetupFails
    \/ SetupSucceeds
    \/ \E line \in MoodLines : ReadMood(line)
    \/ \E line \in LangLines : ReadLanguage(line)
    \/ SearchRaises
    \/ SearchNoItems
    \/ SearchReturnsTracks
    \/ Return
    \/ PrintRecommendations
    \/ InputRaises

MainSpec == MainInit /\ [][MainNext]_vars

----------------------------------------------------------------------------
(* Properties of detect_mood, checked under DetectSpec.                    *)
(* Keyword and marker matches are judged on the lower-cased text, the text *)
(* detect_mood scores.                                                     *)

LoweredMood == lower(user_mood)
HappyMatches == keyword_score(happy_keywords, LoweredMood)
SadMatches == keyword_score(mood_keywords(variant)["sad"], LoweredMood)
Negated == has_negation(LoweredMood)
EffectiveHappy == IF Negated THEN 0 ELSE HappyMatches
IAmNotHappy == <<"I"," ","a","m"," ","n","o","t"," ","h","a","p","p","y">>
OwnSadKeywords == { mood_keywords(variant)["sad"][i] :
                      i \in 1..Len(mood_keywords(variant)["sad"]) }
OwnHappyKeywords == { happy_keywords[i] : i \in 1..Len(happy_keywords) }

\* C3: a text with a happy keyword and a negation marker ("not" or "no") is
\* classified sad; in particular "I am not happy" is sad in both variants.
C3_NegatedHappyIsSad ==
    pc = "detect_done" =>
        /\ (HappyMatches >= 1 /\ Negated => detected = "sad")
        /\ (user_mood = IAmNotHappy => detected = "sad")

C9_SadIffStrictlyMore ==
    pc = "detect_done" =>
        /\ detected = (IF SadMatches > EffectiveHappy THEN "sad" ELSE "happy")
        /\ (HappyMatches = 0 /\ SadMatches = 0 => detected = "happy")
        /\ (~Negated /\ HappyMatches = SadMatches /\ HappyMatches > 0
              => detected = "happy")

\* A text with equal non-zero scores and no negation marker has been classified.
C9_Witness ==
    /\ pc = "detect_done"
    /\ ~Negated /\ HappyMatches = SadMatches /\ HappyMatches > 0
    /\ detected = "happy"

\* C10: every entry of the variant's own keyword lists, given alone as the
\* whole text, is classified as its own category.
C10_KeywordsClassifyAsOwn ==
    pc = "detect_done" =>
        /\ (user_mood \in OwnSadKeywords => detected = "sad")
        /\ (user_mood \in OwnHappyKeywords => detected = "happy")

----------------------------------------------------------------------------
(* Properties of search_songs_by_language, checked under SearchSpec.       *)

Queries == [i \in 1..Len(issued) |-> issued[i].q]
IsPrefix(s, t) == Len(s) <= Len(t) /\ s = SubSeq(t, 1, Len(s))
Min(a, b) == IF a < b THEN a ELSE b

\* C1: for every mood, language, N >= 0 and every combination of search
\* outcomes the returned list has at most N songs. Checked in the stronger
\* form that the list being collected never holds more than N songs either.
C1_AtMostN ==
    num_songs >= 0 =>
        /\ Len(songs) <= num_songs
        /\ (pc = "returned" => Len(returned) <= num_songs)

\* A call returned exactly N >= 1 songs although the searches handed back more.
C1_Witness ==
    /\ pc = "returned"
    /\ num_songs >= 1
    /\ Len(returned) = num_songs
    /\ tracks_total > num_songs

\* C2: if the search raises for every phrase, the empty list is returned and
\* every configured phrase has been searched exactly once, in order.
C2_AllFailEmpty ==
    pc = "returned" /\ failures = Len(issued) =>
        /\ returned = << >>
        /\ Queries = search_terms(mood, language)

\* A call with N >= 1 returned after every one of its searches raised.
C2_Witness ==
    /\ pc = "returned"
    /\ num_songs >= 1
    /\ failures = Len(issued)
    /\ failures >= 3

\* C5: for N >= 0 and well-formed tracks the returned list has exactly
\* min(N, T) songs, T the number of tracks handed back by the searches that
\* did not raise: a raising search adds nothing, loses nothing and does not
\* end the loop.
C5_ExactlyMinNT ==
    pc = "returned" /\ num_songs >= 0 /\ wellformed =>
        Len(returned) = Min(num_songs, tracks_total)

\* Three searches: the first added songs, the second (the one that raised)
\* added none, the third added more, and the call returned.
C5_Witness ==
    /\ pc = "returned"
    /\ wellformed
    /\ Len(issued) = 3
    /\ failures = 1
    /\ issued[2].collected > 0
    /\ issued[3].collected = issued[2].collected
    /\ Len(returned) > issued[3].collected

\* C6: the searches issued are a prefix of the configured term list, in
\* order, each phrase at most once, each with market "IN" for hindi and "US"
\* for english; (happy, english) and (sad, hindi) have the 4 terms listed.
C6_PrefixInOrder ==
    /\ IsPrefix(Queries, search_terms(mood, language))
    /\ \A i, j \in 1..Len(issued) : i # j => issued[i].q # issued[j].q
    /\ \A i \in 1..Len(issued) :
         issued[i].market = (IF language = "hindi" THEN "IN" ELSE "US")
    /\ (mood = "happy" /\ language = "english" =>
          IsPrefix(Queries, << "happy", "upbeat", "dance", "party" >>))
    /\ (mood = "sad" /\ language = "hindi" =>
          IsPrefix(Queries, << "bollywood sad", "hindi emotional",
                               "bollywood classical", "dard bhare gane" >>))

\* All four (sad, hindi) phrases have been searched.
C6_Witness ==
    /\ mood = "sad" /\ language = "hindi"
    /\ Len(issued) = 4
    /\ pc = "returned"

\* C7: for every N >= 0 no search is issued when the number of songs
\* collected is already >= N (so N = 0 issues no search).
C7_NoSearchWhenFull ==
    num_songs >= 0 =>
        \A i \in 1..Len(issued) : issued[i].collected < num_songs

\* What the loop does guarantee: for N >= 1 no search is issued once N songs
\* are collected.
EarlyStopForPositiveN ==
    num_songs >= 1 =>
        \A i \in 1..Len(issued) : issued[i].collected < num_songs

----------------------------------------------------------------------------
(* Properties of the console session, checked under MainSpec.              *)

ValidChoice(line) == ~py_int(line).raised /\ py_int(line).value \in { 1, 2 }
AtPrompt == pc \in { "mood_prompt", "lang_prompt" }
LineTyped == AtPrompt /\ exit_cause' # "error"
InSearch == pc \in { "loop", "at_return", "returned" }

\* C8: the only line that ends the loop is exactly "quit" at the mood prompt;
\* any other mood text leads to the language prompt; a non-numeric or
\* out-of-range line at the language prompt leads back to it; a recommendation
\* request is issued only after a choice of 1 or 2.
C8_OnlyExactQuitEnds ==
    /\ (pc = "exited" /\ exit_cause = "quit" =>
          last_input = [ prompt |-> "mood", line |-> quit_sentinel ])
    /\ (pc = "lang_prompt" /\ last_input.prompt = "mood" =>
          last_input.line # quit_sentinel)
    /\ (pc = "lang_prompt" /\ last_input.prompt = "language" =>
          ~ValidChoice(last_input.line))
    /\ (InSearch => last_input.prompt = "language"
                    /\ ValidChoice(last_input.line))

\* C8 as amended: the lines that end the loop are those typed at the mood
\* prompt whose lower-cased form is "quit"; every other mood line leads to
\* the language prompt; at the language prompt a line that int() rejects or
\* whose value is not 1 or 2 (the line "quit" too) leads back to the language
\* prompt, and a line whose value is 1 or 2 starts the recommendation
\* request, which is never started any other way.
C8_QuitAnyCaseEnds ==
    /\ [][ LineTyped /\ pc = "mood_prompt" =>
             IF lower(last_input'.line) = quit_sentinel
             THEN pc' = "exited" /\ exit_cause' = "quit"
             ELSE pc' = "lang_prompt" ]_vars
    /\ [][ LineTyped /\ pc = "lang_prompt" =>
             IF ValidChoice(last_input'.line)
             THEN pc' = "loop" /\ issued' = << >>
             ELSE pc' = "lang_prompt" ]_vars
    /\ [][ pc' = "exited" /\ exit_cause' = "quit" => pc = "mood_prompt" ]_vars
    /\ [][ pc' = "loop" /\ pc # "loop" => pc = "lang_prompt" ]_vars
    /\ [](InSearch => /\ last_input.prompt = "language"
                      /\ ValidChoice(last_input.line)
                      /\ lang_choice \in { << 1 >>, << 2 >> })

\* A session that served one request for hindi songs and was then ended by
\* a spelling of the sentinel other than "quit".
C8_Witness ==
    /\ pc = "exited"
    /\ exit_cause = "quit"
    /\ last_input.line # quit_sentinel
    /\ lang_choice = << 2 >>
    /\ language = "hindi"
    /\ detected = "sad"

====
